---- MODULE Spec2Model ----
(***************************************************************************)
(* Order and conditional-trigger ("sniffer") registry of algoUtils:        *)
(* OrderBase in baseUtil.py with its price/amount quantization, the        *)
(* OrderInfo value object of schemaUtil.py, and the connection hub         *)
(* QuicEventBase of baseUtil.py.                                           *)
(*                                                                         *)
(* Conventions.  A Python Optional value is a sequence of length 0 (None)  *)
(* or 1 (the value).  Timestamps are integers counting 10^-7 seconds;      *)
(* prices and amounts given to the quantization count 10^-3.               *)
(* Pass-through fields that no operation reads (batch_id, symbol,          *)
(* exchange, amount, expire, delay, condition, smooth) are left out of the *)
(* stored records.                                                         *)
(***************************************************************************)
EXTENDS Integers, FiniteSets, Sequences, TLC

VARIABLES
    orders,     \* OrderBase.__orders: order_id -> order dict
    sniffers,   \* OrderBase.__sniffers: order_id -> sniffer dict
    drop,       \* drop flag of the Target/TrailingSnifferInfo made for a trigger
    issued,     \* every id uuid4 has returned so far
    precision_dict, \* OrderBase.__precision_dict: symbol -> {price, amount}
    connections,\* QuicEventBase.connections: host_id -> connection (TRUE: its send succeeds)
    sends,      \* the send coroutines send_all handed to gather: host_id -> state
    received,   \* host_id -> how many times the connection was sent the payload
    gather,     \* where the caller of send_all is
    cache,      \* QuicEventBase.cache: the inbound asyncio.Queue
    getter,     \* where the task calling get_data is
    got,        \* the messages get_data has returned, in order
    enqueued,   \* the messages put on the queue, in order
    requests,   \* the cancellation requests forwarded to the connector
    timers,     \* the timers placed and not yet delivered, in placement order
    fired,      \* the events delivered to on_timer, in order, with the time of delivery
    now,        \* the connector's clock
    call,       \* the last operation called, with its arguments
    ret         \* what that operation returned or raised

registry_vars == <<orders, sniffers, drop, issued>>
hub_vars == <<connections, sends, received, gather, cache, getter, got, enqueued>>
service_vars == <<requests, timers, fired, now>>
vars == <<registry_vars, precision_dict, service_vars, hub_vars, call, ret>>

\* ---------------------------------------------------------------- bounds

MaxIds == 2
MaxHosts == 3
MaxMsgs == 3
MaxLen == 2
MaxTimers == 2
MaxTime == 2

Ids == 1..MaxIds
Hosts == 1..MaxHosts

\* ------------------------------------------------------- Python values

None == <<>>
Some(v) == <<v>>
IsNone(x) == x = <<>>
Val(x) == x[1]
Optional(S) == {None} \cup {Some(v) : v \in S}

\* float(x) of a number keeps its value (and rounds nothing)
Float(x) == x

\* d[k] = v
Put(d, k, v) == [x \in DOMAIN d \cup {k} |-> IF x = k THEN v ELSE d[x]]
\* d.pop(k, None)
Pop(d, k) == [x \in DOMAIN d \ {k} |-> d[x]]
\* d.get(k)
Get(d, k) == IF k \in DOMAIN d THEN Some(d[k]) ELSE None

EmptyDict == [x \in {} |-> x]

\* what an operation gives back
Returned(kind, value) == [kind |-> kind, value |-> value]
RetNone == Returned("None", None)
RetId(id) == Returned("id", Some(id))
RetInfo(info) == Returned("info", Some(info))
Raised(error) == Returned(error, None)

\* ----------------------------------------------------------- rank tables

ORDER_STATUS ==
    [s \in {"pending", "waiting", "triggered", "partial_filled", "canceling",
            "canceled", "error", "filled"} |->
        CASE s = "pending" -> 0
          [] s = "waiting" -> 1
          [] s = "triggered" -> 2
          [] s = "partial_filled" -> 3
          [] s = "canceling" -> 4
          [] s = "canceled" -> 5
          [] s = "error" -> 5
          [] s = "filled" -> 5]

SNIFFER_STATUS ==
    [s \in {"pending", "waiting", "triggered", "canceled", "error"} |->
        CASE s = "pending" -> 0
          [] s = "waiting" -> 1
          [] s = "triggered" -> 2
          [] s = "canceled" -> 2
          [] s = "error" -> 2]

OrderStatuses == DOMAIN ORDER_STATUS
SnifferStatuses == DOMAIN SNIFFER_STATUS

OrderTypes == {"market", "limit", "condition_limit", "condition_market"}
Features == {"fok", "fak", "gtx", "queue"}

\* ---------------------------------------------------------------- state

Init ==
    /\ orders = EmptyDict
    /\ sniffers = EmptyDict
    /\ drop = EmptyDict
    /\ issued = {}
    /\ precision_dict = EmptyDict
    /\ connections = EmptyDict
    /\ sends = EmptyDict
    /\ received = EmptyDict
    /\ gather = "idle"
    /\ cache = <<>>
    /\ getter = "idle"
    /\ got = <<>>
    /\ enqueued = <<>>
    /\ requests = {}
    /\ timers = <<>>
    /\ fired = <<>>
    /\ now = 0
    /\ call = [op |-> "init"]
    /\ ret = RetNone

\* mutant of uuid4: an id that may have been returned before
uuid4_any == Ids

\* str(uuid.uuid4()): an id no earlier call has returned
uuid4 == Ids \ issued


\* ------------------------------------------------------------ placement

\* the dict _generate_order stores under a new order_id
new_order(order_id, _order_type, _feature, _price, _current_timestamp) ==
    [order_id |-> order_id,
     order_type |-> _order_type,
     feature |-> _feature,
     price |-> _price,
     status |-> "pending",
     current_timestamp |-> _current_timestamp,
     send_timestamp |-> None,
     receive_timestamp |-> None,
     last_timestamp |-> None,
     local_timestamp |-> None,
     execute_price |-> None,
     execute_amount |-> 0,
     fee_rate |-> None,
     msg |-> None]

\* OrderBase._generate_order: no argument is validated
generate_order(_order_type, _feature, _price, _current_timestamp) ==
    \E order_id \in uuid4 :
        /\ orders' = Put(orders, order_id,
                new_order(order_id, _order_type, _feature, _price, _current_timestamp))
        /\ issued' = issued \cup {order_id}
        /\ call' = [op |-> "generate_order", order_type |-> _order_type,
                    feature |-> _feature, price |-> _price]
        /\ ret' = RetId(order_id)
        /\ UNCHANGED <<sniffers, drop, precision_dict, service_vars, hub_vars>>

\* the dict _generate_target_sniffer stores
new_target_sniffer(order_id, _target_price, _operator) ==
    [order_id |-> order_id,
     order_type |-> "target",
     operator |-> _operator,
     target_price |-> _target_price,
     status |-> "pending",
     last_timestamp |-> None,
     local_timestamp |-> None]

\* the dict _generate_trailing_sniffer stores: it has back_pct and no target_price
new_trailing_sniffer(order_id, _operator, _target_price, _back_pct) ==
    [order_id |-> order_id,
     order_type |-> "trailing",
     operator |-> _operator,
     back_pct |-> _back_pct,
     status |-> "pending",
     last_timestamp |-> None,
     local_timestamp |-> None]

\* OrderBase._generate_target_sniffer
generate_target_sniffer(_target_price, _operator) ==
    \E order_id \in uuid4 :
        /\ sniffers' = Put(sniffers, order_id,
                new_target_sniffer(order_id, _target_price, _operator))
        /\ issued' = issued \cup {order_id}
        /\ call' = [op |-> "generate_target_sniffer"]
        /\ ret' = RetId(order_id)
        /\ UNCHANGED <<orders, precision_dict, service_vars, hub_vars>>

\* OrderBase._generate_trailing_sniffer
generate_trailing_sniffer(_operator, _target_price, _back_pct) ==
    \E order_id \in uuid4 :
        /\ sniffers' = Put(sniffers, order_id,
                new_trailing_sniffer(order_id, _operator, _target_price, _back_pct))
        /\ issued' = issued \cup {order_id}
        /\ call' = [op |-> "generate_trailing_sniffer"]
        /\ ret' = RetId(order_id)
        /\ UNCHANGED <<orders, precision_dict, service_vars, hub_vars>>

\* A trigger is placed and the caller builds its TargetSnifferInfo, whose
\* drop flag (default True) the registry never sees.
place_target_sniffer(_operator, _target_price, _drop) ==
    /\ generate_target_sniffer(_target_price, _operator)
    /\ drop' = Put(drop, Val(ret'.value), _drop)

\* The same with a TrailingSnifferInfo.
place_trailing_sniffer(_operator, _target_price, _back_pct, _drop) ==
    /\ generate_trailing_sniffer(_operator, _target_price, _back_pct)
    /\ drop' = Put(drop, Val(ret'.value), _drop)

\* ---------------------------------------------------------------- lookup

\* OrderBase._get_order_info
get_order_info(_order_id) == Get(orders, _order_id)

\* OrderBase._get_sniffer_info
get_sniffer_info(_order_id) == Get(sniffers, _order_id)

\* OrderBase._remove_order
remove_order(_order_id) ==
    /\ orders' = Pop(orders, _order_id)
    /\ call' = [op |-> "remove_order", order_id |-> _order_id]
    /\ ret' = RetNone
    /\ UNCHANGED <<sniffers, drop, issued, precision_dict, service_vars, hub_vars>>

\* OrderBase._remove_sniffer
remove_sniffer(_order_id) ==
    /\ sniffers' = Pop(sniffers, _order_id)
    /\ call' = [op |-> "remove_sniffer", order_id |-> _order_id]
    /\ ret' = RetNone
    /\ UNCHANGED <<orders, drop, issued, precision_dict, service_vars, hub_vars>>

\* ----------------------------------------------------------- cancellation

\* cancel_order(_order_id, _delay=None) is abstract in OrderBase.  As the
\* specification has it, it forwards a cancellation request to the connector
\* and does not itself change local order state.
cancel_order(_order_id) ==
    /\ requests' = requests \cup {<<"cancel_order", _order_id>>}
    /\ call' = [op |-> "cancel_order", order_id |-> _order_id]
    /\ ret' = RetNone
    /\ UNCHANGED <<registry_vars, precision_dict, timers, fired, now, hub_vars>>

\* cancel_sniffer(_order_id, _delay=None), abstract as well: the same for a trigger.
cancel_sniffer(_order_id) ==
    /\ requests' = requests \cup {<<"cancel_sniffer", _order_id>>}
    /\ call' = [op |-> "cancel_sniffer", order_id |-> _order_id]
    /\ ret' = RetNone
    /\ UNCHANGED <<registry_vars, precision_dict, timers, fired, now, hub_vars>>

\* ------------------------------------------------------------------ timers

\* place_timer(_to_timestamp, _event) is abstract in OrderBase and on_timer
\* in StrategyBase.  As the specification has it, a placed timer is delivered
\* to on_timer at or after its timestamp, cannot be canceled, and the timers
\* of one on_timer stream are delivered in the order they were placed.
\* Events are numbered in placement order.
place_timer(_to_timestamp) ==
    LET _event == Len(timers) + Len(fired) + 1
    IN  /\ _event <= MaxTimers
        /\ timers' = Append(timers, [event |-> _event, to_timestamp |-> _to_timestamp])
        /\ call' = [op |-> "place_timer", event |-> _event]
        /\ ret' = RetNone
        /\ UNCHANGED <<registry_vars, precision_dict, requests, fired, now, hub_vars>>

timer_due_at_once(timer, _timestamp) == TRUE

\* the timer may be delivered at _timestamp
timer_due(timer, _timestamp) == timer.to_timestamp <= _timestamp

\* The oldest pending timer is delivered to on_timer.
on_timer ==
    /\ timers # <<>>
    /\ timer_due(Head(timers), now)
    /\ fired' = Append(fired, [event |-> Head(timers).event,
                               to_timestamp |-> Head(timers).to_timestamp,
                               at |-> now])
    /\ timers' = Tail(timers)
    /\ call' = [op |-> "on_timer", event |-> Head(timers).event]
    /\ ret' = RetNone
    /\ UNCHANGED <<registry_vars, precision_dict, requests, now, hub_vars>>

\* The clock (get_current_timestamp) moves on.
clock_tick ==
    /\ now < MaxTime
    /\ now' = now + 1
    /\ call' = [op |-> "tick"]
    /\ ret' = RetNone
    /\ UNCHANGED <<registry_vars, precision_dict, requests, timers, fired, hub_vars>>

\* ---------------------------------------------------------- order update

\* x or 0
OrZero(x) == IF x = 0 THEN 0 ELSE x

\* mutant of order_not_found: the lookup is made with [] and raises
order_not_found_raises == Raised("KeyError")

\* if order_info is None: return
order_not_found == RetNone

\* mutant of order_update_check: the lower-rank test is missing
order_update_check_no_rank(order_info, _status, _execute_amount) ==
    IF ORDER_STATUS[_status] = ORDER_STATUS[order_info.status]
    THEN IF IsNone(_execute_amount)
         THEN "TypeError"
         ELSE IF Val(_execute_amount) <= OrZero(order_info.execute_amount)
              THEN "return"
              ELSE "apply"
    ELSE "apply"

\* mutant of order_update_check: the amount test is < where the code has <=
order_update_check_lt(order_info, _status, _execute_amount) ==
    IF ORDER_STATUS[_status] < ORDER_STATUS[order_info.status]
    THEN "return"
    ELSE IF ORDER_STATUS[_status] = ORDER_STATUS[order_info.status]
         THEN IF IsNone(_execute_amount)
              THEN "TypeError"
              ELSE IF Val(_execute_amount) < OrZero(order_info.execute_amount)
                   THEN "return"
                   ELSE "apply"
         ELSE "apply"

order_update_check_canceling_final(order_info, _status, _execute_amount) ==
    IF ORDER_STATUS[_status] < ORDER_STATUS[order_info.status] \/ order_info.status = "canceling"
    THEN "return"
    ELSE IF ORDER_STATUS[_status] = ORDER_STATUS[order_info.status]
         THEN IF IsNone(_execute_amount)
              THEN "TypeError"
              ELSE IF Val(_execute_amount) <= OrZero(order_info.execute_amount)
                   THEN "return"
                   ELSE "apply"
         ELSE "apply"

order_update_check_equal_rank_passes(order_info, _status, _execute_amount) ==
    IF ORDER_STATUS[_status] < ORDER_STATUS[order_info.status] THEN "return" ELSE "apply"

\* The two monotonic checks of _update_order_info: "return" when the update is
\* dropped, "apply" when it goes on, "TypeError" when None <= number is evaluated.
order_update_check(order_info, _status, _execute_amount) ==
    IF ORDER_STATUS[_status] < ORDER_STATUS[order_info.status]
    THEN "return"
    ELSE IF ORDER_STATUS[_status] = ORDER_STATUS[order_info.status]
         THEN IF IsNone(_execute_amount)
              THEN "TypeError"
              ELSE IF Val(_execute_amount) <= OrZero(order_info.execute_amount)
                   THEN "return"
                   ELSE "apply"
         ELSE "apply"

order_update_apply_no_amount(order_info, _status, _last_timestamp, _local_timestamp, _execute_price, _execute_amount, _fee_rate, _msg) ==
    [order_info EXCEPT
        !.status = _status,
        !.last_timestamp = Some(Float(_last_timestamp)),
        !.local_timestamp = Some(Float(_local_timestamp)),
        !.execute_price = IF IsNone(_execute_price) THEN @
                          ELSE Some(Float(Val(_execute_price))),
        !.fee_rate = IF IsNone(_fee_rate) THEN @ ELSE _fee_rate,
        !.msg = IF IsNone(_msg) THEN @ ELSE _msg]

\* The assignments of _update_order_info to the stored dict.
order_update_apply(order_info, _status, _last_timestamp, _local_timestamp, _execute_price, _execute_amount, _fee_rate, _msg) ==
    [order_info EXCEPT
        !.status = _status,
        !.last_timestamp = Some(Float(_last_timestamp)),
        !.local_timestamp = Some(Float(_local_timestamp)),
        !.execute_price = IF IsNone(_execute_price) THEN @
                          ELSE Some(Float(Val(_execute_price))),
        !.execute_amount = IF IsNone(_execute_amount) THEN @
                           ELSE Float(Val(_execute_amount)),
        !.fee_rate = IF IsNone(_fee_rate) THEN @ ELSE _fee_rate,
        !.msg = IF IsNone(_msg) THEN @ ELSE _msg]

\* mutant of order_evicted: > where the code has >=
order_evicted_gt(_status) == ORDER_STATUS[_status] > 5

\* if self.ORDER_STATUS[_status] >= 5: pop
order_evicted(_status) == ORDER_STATUS[_status] >= 5

\* OrderBase._update_order_info
update_order_info(_order_id, _status, _last_timestamp, _local_timestamp, _execute_price, _execute_amount, _fee_rate, _msg) ==
    /\ call' = [op |-> "update_order_info", order_id |-> _order_id,
                status |-> _status, execute_amount |-> _execute_amount]
    /\ IF IsNone(Get(orders, _order_id))
       THEN /\ ret' = order_not_found
            /\ UNCHANGED orders
       ELSE LET order_info == orders[_order_id]
                check == order_update_check(order_info, _status, _execute_amount)
                updated == order_update_apply(order_info, _status, _last_timestamp,
                               _local_timestamp, _execute_price, _execute_amount,
                               _fee_rate, _msg)
            IN  CASE check = "return" ->
                        /\ ret' = RetNone
                        /\ UNCHANGED orders
                  [] check = "TypeError" ->
                        /\ ret' = Raised("TypeError")
                        /\ UNCHANGED orders
                  [] OTHER ->
                        /\ orders' = IF order_evicted(_status)
                                     THEN Pop(orders, _order_id)
                                     ELSE Put(orders, _order_id, updated)
                        /\ ret' = RetInfo(updated)
    /\ UNCHANGED <<sniffers, drop, issued, precision_dict, service_vars, hub_vars>>

\* ------------------------------------------------------- round timestamps

\* self.__orders[_order_id][name] = value: the subscript raises KeyError for
\* an order_id that is not in the table
round_timestamp_lookup(_order_id) ==
    IF _order_id \in DOMAIN orders THEN "store" ELSE "KeyError"

\* OrderBase._update_round_timestamp: each timestamp that is given is stored
\* as it comes; both assignments subscript the table with the same order_id,
\* so the first one that is given decides whether the call raises.
update_round_timestamp(_order_id, _send_timestamp, _receive_timestamp) ==
    /\ call' = [op |-> "update_round_timestamp", order_id |-> _order_id,
                send_timestamp |-> _send_timestamp,
                receive_timestamp |-> _receive_timestamp]
    /\ IF IsNone(_send_timestamp) /\ IsNone(_receive_timestamp)
       THEN /\ ret' = RetNone
            /\ UNCHANGED orders
       ELSE IF round_timestamp_lookup(_order_id) = "KeyError"
       THEN /\ ret' = Raised("KeyError")
            /\ UNCHANGED orders
       ELSE /\ orders' = Put(orders, _order_id,
                    [orders[_order_id] EXCEPT
                        !.send_timestamp =
                            IF IsNone(_send_timestamp) THEN @ ELSE _send_timestamp,
                        !.receive_timestamp =
                            IF IsNone(_receive_timestamp) THEN @ ELSE _receive_timestamp])
            /\ ret' = RetNone
    /\ UNCHANGED <<sniffers, drop, issued, precision_dict, service_vars, hub_vars>>

\* -------------------------------------------------------- sniffer update

\* if sniffer_info is None: return
sniffer_not_found == RetNone

\* mutant of sniffer_update_check: no rank test
sniffer_update_check_none(sniffer_info, _status) == "apply"

\* The rank check of _update_sniffer_info, made with the ORDER rank table.
sniffer_update_check(sniffer_info, _status) ==
    IF ORDER_STATUS[_status] < ORDER_STATUS[sniffer_info.status]
    THEN "return"
    ELSE "apply"

\* The assignments of _update_sniffer_info to the stored dict.
sniffer_update_apply(sniffer_info, _status, _last_timestamp, _local_timestamp) ==
    [sniffer_info EXCEPT
        !.status = _status,
        !.last_timestamp = Some(Float(_last_timestamp)),
        !.local_timestamp = Some(Float(_local_timestamp))]

\* mutant of sniffer_evicted: > where the code has >=
sniffer_evicted_gt(_order_id, _status) == SNIFFER_STATUS[_status] > 2

sniffer_evicted_honours_drop(_order_id, _status) ==
    SNIFFER_STATUS[_status] >= 2 /\ drop[_order_id]

\* if self.SNIFFER_STATUS[_status] >= 2: pop.  The drop flag is not read.
sniffer_evicted(_order_id, _status) == SNIFFER_STATUS[_status] >= 2

\* OrderBase._update_sniffer_info.  A status outside SNIFFER_STATUS raises
\* KeyError at the eviction test, after the dict was assigned.
update_sniffer_info(_order_id, _status, _last_timestamp, _local_timestamp) ==
    /\ call' = [op |-> "update_sniffer_info", order_id |-> _order_id,
                status |-> _status]
    /\ IF IsNone(Get(sniffers, _order_id))
       THEN /\ ret' = sniffer_not_found
            /\ UNCHANGED sniffers
       ELSE LET sniffer_info == sniffers[_order_id]
                updated == sniffer_update_apply(sniffer_info, _status,
                               _last_timestamp, _local_timestamp)
            IN  IF sniffer_update_check(sniffer_info, _status) = "return"
                THEN /\ ret' = RetNone
                     /\ UNCHANGED sniffers
                ELSE IF _status \notin DOMAIN SNIFFER_STATUS
                     THEN /\ sniffers' = Put(sniffers, _order_id, updated)
                          /\ ret' = Raised("KeyError")
                     ELSE /\ sniffers' = IF sniffer_evicted(_order_id, _status)
                                         THEN Pop(sniffers, _order_id)
                                         ELSE Put(sniffers, _order_id, updated)
                          /\ ret' = RetInfo(updated)
    /\ UNCHANGED <<orders, drop, issued, precision_dict, service_vars, hub_vars>>

\* ------------------------------------------------------------ OrderInfo

\* mutant of validate_direction: short/close is given the sign of short/open
validate_direction_short_close(_position, _action, _direction) ==
    IF _position = "long" /\ _action = "open" THEN 1
    ELSE IF _position = "long" /\ _action = "close" THEN -1
    ELSE IF _position = "short" /\ _action = "open" THEN -1
    ELSE IF _position = "short" /\ _action = "close" THEN -1
    ELSE _direction

\* OrderInfo.validate_direction
validate_direction(_position, _action, _direction) ==
    IF _position = "long" /\ _action = "open" THEN 1
    ELSE IF _position = "long" /\ _action = "close" THEN -1
    ELSE IF _position = "short" /\ _action = "open" THEN -1
    ELSE IF _position = "short" /\ _action = "close" THEN 1
    ELSE _direction

\* mutant of validate_price_required: the queue feature is not exempted
validate_price_required_no_queue(_order_type, _price, _feature) ==
    _order_type \in {"limit", "condition_limit"} /\ IsNone(_price)

\* OrderInfo.validate_price_required: TRUE when it raises ValueError
validate_price_required(_order_type, _price, _feature) ==
    /\ _order_type \in {"limit", "condition_limit"}
    /\ IsNone(_price)
    /\ _feature # Some("queue")

\* OrderInfo(...): the model validators run in the order they are declared;
\* the fields are those the two validators read or write, and the defaults
\* of status, execute_price and execute_amount.
OrderInfo(_order_type, _action, _position, _direction, _feature, _price) ==
    IF validate_price_required(_order_type, _price, _feature)
    THEN Raised("ValidationError")
    ELSE RetInfo([order_type |-> _order_type,
                  action |-> _action,
                  position |-> _position,
                  direction |-> validate_direction(_position, _action, _direction),
                  feature |-> _feature,
                  price |-> _price,
                  status |-> "pending",
                  execute_price |-> 0,
                  execute_amount |-> 0])

\* An OrderInfo is constructed from the given arguments.
NewOrderInfo(_order_type, _action, _position, _direction, _feature, _price) ==
    /\ call' = [op |-> "OrderInfo", order_type |-> _order_type, action |-> _action,
                position |-> _position, direction |-> _direction,
                feature |-> _feature, price |-> _price]
    /\ ret' = OrderInfo(_order_type, _action, _position, _direction, _feature, _price)
    /\ UNCHANGED <<registry_vars, precision_dict, service_vars, hub_vars>>

\* ------------------------------------------------------------- Signal

\* A Python value that is one item or a list of items
Single(v) == [list |-> FALSE, items |-> <<v>>]
List(items) == [list |-> TRUE, items |-> items]
\* isinstance(x, list)
isinstance_list(x) == x.list
\* len(x) of a list
len(x) == Len(x.items)

validate_price_and_symbol_no_length(_symbol, _price) ==
    isinstance_list(_price) # isinstance_list(_symbol)

\* Signal.validate_price_and_symbol: TRUE when it raises ValueError
validate_price_and_symbol(_symbol, _price) ==
    \/ isinstance_list(_price) # isinstance_list(_symbol)
    \/ /\ isinstance_list(_price) /\ isinstance_list(_symbol)
       /\ len(_price) # len(_symbol)

\* Signal(symbol=..., price=...): the model validator runs after the fields
\* are set and ends by converting every price with float()
Signal(_symbol, _price) ==
    IF validate_price_and_symbol(_symbol, _price)
    THEN Raised("ValidationError")
    ELSE RetInfo([symbol |-> _symbol,
                  price |-> [_price EXCEPT !.items = [i \in DOMAIN _price.items |-> Float(_price.items[i])]]])

\* A Signal is constructed from the given symbol and price.
NewSignal(_symbol, _price) ==
    /\ call' = [op |-> "Signal", symbol |-> _symbol, price |-> _price]
    /\ ret' = Signal(_symbol, _price)
    /\ UNCHANGED <<registry_vars, precision_dict, service_vars, hub_vars>>

\* ------------------------------------------------ price/amount precision

\* how many model units make 1.0 of a price or an amount
UnitsPerOne == 10 * 10 * 10

\* 10 ** n
RECURSIVE Pow10(_)
Pow10(n) == IF n = 0 THEN 1 ELSE 10 * Pow10(n - 1)

\* one tick of a symbol with the given digits, 10 ** -digits, in model units
Tick(digits) == UnitsPerOne \div Pow10(digits)

\* _value * factor as Python computes it, in doubles.  The product is exact
\* for the values quantized here but one: 0.29 * 100 is 28.999999999999996,
\* a hair under the 29 of exact arithmetic, shown as one model unit under it.
float_mul(_value, factor) ==
    IF _value = 290 /\ factor = 100 THEN _value * factor - 1 ELSE _value * factor

\* int(x) of the float x / unit: the fraction is dropped, toward zero
PyInt(x, unit) == IF x >= 0 THEN x \div unit ELSE -((-x) \div unit)

truncate_bias_ceiling(_value, amount_p, _upper) ==
    LET factor == Pow10(amount_p)
        int_amount == PyInt(float_mul(_value, factor), UnitsPerOne)
        bias == IF _upper /\ int_amount * Tick(amount_p) # _value THEN 1 ELSE 0
    IN  (int_amount + bias) * Tick(amount_p)

\* the body shared by format_amount and format_price once the digits are
\* known: int(value * factor), plus the bias, divided back by factor.  The
\* quotient is a whole number of ticks, which round(.., amount_p) keeps.
truncate_bias(_value, amount_p, _upper) ==
    LET factor == Pow10(amount_p)
        int_amount == PyInt(float_mul(_value, factor), UnitsPerOne)
        bias == IF _upper THEN 1 ELSE 0
    IN  (int_amount + bias) * Tick(amount_p)

precision_lookup_default(_symbol, _key) ==
    IF _symbol \in DOMAIN precision_dict THEN Some(precision_dict[_symbol][_key]) ELSE Some(0)

\* self.__precision_dict[_symbol][_key]; None stands for the KeyError
precision_lookup(_symbol, _key) ==
    IF _symbol \in DOMAIN precision_dict THEN Some(precision_dict[_symbol][_key]) ELSE None

\* the value format_amount gives back, or the error it raises
format_amount_result(_symbol, _amount, _upper) ==
    LET amount_p == precision_lookup(_symbol, "amount")
    IN  IF IsNone(amount_p) THEN Raised("KeyError")
        ELSE Returned("float", Some(truncate_bias(_amount, Val(amount_p), _upper)))

\* the value format_price gives back, or the error it raises
format_price_result(_symbol, _price, _upper) ==
    LET amount_p == precision_lookup(_symbol, "price")
    IN  IF IsNone(amount_p) THEN Raised("KeyError")
        ELSE Returned("float", Some(truncate_bias(_price, Val(amount_p), _upper)))

format_amount(_symbol, _amount, _upper) ==
    /\ call' = [op |-> "format_amount", symbol |-> _symbol, value |-> _amount, upper |-> _upper]
    /\ ret' = format_amount_result(_symbol, _amount, _upper)
    /\ UNCHANGED <<registry_vars, precision_dict, service_vars, hub_vars>>

format_price(_symbol, _price, _upper) ==
    /\ call' = [op |-> "format_price", symbol |-> _symbol, value |-> _price, upper |-> _upper]
    /\ ret' = format_price_result(_symbol, _price, _upper)
    /\ UNCHANGED <<registry_vars, precision_dict, service_vars, hub_vars>>

set_precision_dict_only(_symbol, _price, _amount) ==
    (_symbol :> [price |-> _price, amount |-> _amount])

\* the dictionary after self.__precision_dict[_symbol] = {...}
set_precision_dict(_symbol, _price, _amount) ==
    Put(precision_dict, _symbol, [price |-> _price, amount |-> _amount])

\* _set_precision_dict(_symbol, _price, _amount)
register_precision(_symbol, _price, _amount) ==
    /\ precision_dict' = set_precision_dict(_symbol, _price, _amount)
    /\ call' = [op |-> "set_precision_dict", symbol |-> _symbol, price |-> _price, amount |-> _amount]
    /\ ret' = RetNone
    /\ UNCHANGED <<registry_vars, service_vars, hub_vars>>

\* --------------------------------------------- timestamps of an OrderInfo

\* round(float(v), 6) of a timestamp whose seventh decimal is not 5
round6(v) == ((v + 5) \div 10) * 10

\* the field validator of the seven timestamp fields
validate_timestamp_precision(v) == IF IsNone(v) THEN v ELSE Some(round6(Val(v)))

\* The timestamp fields of a constructed OrderInfo: each goes through
\* validate_timestamp_precision.
OrderInfo_timestamps(_current, _send, _receive, _exchange, _local, _trigger, _trigger_local) ==
    [current_timestamp |-> validate_timestamp_precision(_current),
     send_timestamp |-> validate_timestamp_precision(_send),
     receive_timestamp |-> validate_timestamp_precision(_receive),
     exchange_timestamp |-> validate_timestamp_precision(_exchange),
     local_timestamp |-> validate_timestamp_precision(_local),
     trigger_timestamp |-> validate_timestamp_precision(_trigger),
     trigger_local_timestamp |-> validate_timestamp_precision(_trigger_local)]

\* OrderInfo.__setattr__(name, value) for a timestamp field
OrderInfo_setattr(data, name, value) ==
    IF /\ name \in {"current_timestamp", "send_timestamp", "receive_timestamp",
                    "exchange_timestamp", "local_timestamp"}
       /\ ~IsNone(value)
    THEN [data EXCEPT ![name] = Some(round6(Val(value)))]
    ELSE [data EXCEPT ![name] = value]

\* OrderInfo.update(_update_info), as far as timestamps go; _update_info is
\* an UpdateOrderInfo, whose own validator has rounded its two timestamps.
OrderInfo_update(data, _status, _exchange_timestamp, _local_timestamp) ==
    LET info_exchange == Val(validate_timestamp_precision(Some(_exchange_timestamp)))
        info_local == Val(validate_timestamp_precision(Some(_local_timestamp)))
        d1 == OrderInfo_setattr(data, "exchange_timestamp", Some(round6(info_exchange)))
        d2 == OrderInfo_setattr(d1, "local_timestamp", Some(round6(info_local)))
        d3 == OrderInfo_setattr(d2, "trigger_timestamp", Some(round6(info_exchange)))
        d4 == OrderInfo_setattr(d3, "trigger_local_timestamp", Some(round6(info_local)))
    IN  IF _status = "triggered" THEN d4 ELSE d2

\* UpdateOrderInfo(...): a field the caller leaves out takes the default of
\* the class, 0 for execute_price and execute_amount, None for fee_rate and msg.
UpdateOrderInfo(_status, _execute_price, _execute_amount, _fee_rate, _msg) ==
    [status |-> _status,
     execute_price |-> IF IsNone(_execute_price) THEN 0 ELSE Val(_execute_price),
     execute_amount |-> IF IsNone(_execute_amount) THEN 0 ELSE Val(_execute_amount),
     fee_rate |-> _fee_rate,
     msg |-> _msg]

\* OrderInfo.update(_update_info), as far as status and execution go: every
\* field is assigned from the update, whatever it holds.
OrderInfo_update_values(data, _update_info) ==
    [data EXCEPT
        !.status = _update_info.status,
        !.execute_price = Float(_update_info.execute_price),
        !.execute_amount = Float(_update_info.execute_amount),
        !.fee_rate = _update_info.fee_rate,
        !.msg = _update_info.msg]

\* the dict the registry holds for an order whose status and execution
\* fields are those of the OrderInfo `data`
stored_order(data) ==
    [new_order(1, "limit", None, Some(100), 10000000) EXCEPT
        !.status = data.status,
        !.execute_price = Some(data.execute_price),
        !.execute_amount = data.execute_amount,
        !.fee_rate = data.fee_rate,
        !.msg = data.msg]

\* _update_order_info's parameter _execute_amount=0: the default of an
\* argument the caller leaves out
default_execute_amount(_execute_amount) ==
    IF IsNone(_execute_amount) THEN Some(0) ELSE _execute_amount

\* One update, accepted by the registry's checks, is applied to the two
\* copies of one order: by _update_order_info to the stored dict and by
\* OrderInfo.update to the OrderInfo.  ret holds both copies afterwards.
apply_order_update(data, _status, _last_timestamp, _local_timestamp, _execute_price, _execute_amount, _fee_rate, _msg) ==
    /\ order_update_check(stored_order(data), _status,
                          default_execute_amount(_execute_amount)) = "apply"
    /\ call' = [op |-> "apply_order_update", order_info |-> data,
                status |-> _status, execute_price |-> _execute_price,
                execute_amount |-> _execute_amount, fee_rate |-> _fee_rate,
                msg |-> _msg]
    /\ ret' = Returned("applied",
                [registry |-> order_update_apply(stored_order(data), _status,
                                  _last_timestamp, _local_timestamp, _execute_price,
                                  default_execute_amount(_execute_amount),
                                  _fee_rate, _msg),
                 order_info |-> OrderInfo_update_values(data,
                                  UpdateOrderInfo(_status, _execute_price,
                                      _execute_amount, _fee_rate, _msg))])
    /\ UNCHANGED <<registry_vars, precision_dict, service_vars, hub_vars>>

\* An OrderInfo is constructed; ret is the object its caller now holds.
NewOrderTimestamps(_current, _send, _receive, _exchange, _local, _trigger, _trigger_local) ==
    /\ call' = [op |-> "OrderInfo.timestamps"]
    /\ ret' = RetInfo(OrderInfo_timestamps(_current, _send, _receive, _exchange,
                                           _local, _trigger, _trigger_local))
    /\ UNCHANGED <<registry_vars, precision_dict, service_vars, hub_vars>>

\* order.<name> = value on the object held
SetTimestamp(name, value) ==
    /\ ret.kind = "info"
    /\ call' = [op |-> "OrderInfo.__setattr__", name |-> name, value |-> value]
    /\ ret' = RetInfo(OrderInfo_setattr(Val(ret.value), name, value))
    /\ UNCHANGED <<registry_vars, precision_dict, service_vars, hub_vars>>

\* order.update(_update_info) on the object held
UpdateTimestamps(_status, _exchange_timestamp, _local_timestamp) ==
    /\ ret.kind = "info"
    /\ call' = [op |-> "OrderInfo.update", status |-> _status]
    /\ ret' = RetInfo(OrderInfo_update(Val(ret.value), _status, _exchange_timestamp, _local_timestamp))
    /\ UNCHANGED <<registry_vars, precision_dict, service_vars, hub_vars>>

\* ------------------------------------------------------- connection hub

\* A connection enters self.connections (the code that fills the map is the
\* subclass's); it is open.
connect(_host_id) ==
    /\ _host_id \notin DOMAIN connections
    /\ connections' = Put(connections, _host_id, "open")
    /\ call' = [op |-> "connect"]
    /\ ret' = RetNone
    /\ UNCHANGED <<registry_vars, precision_dict, service_vars, sends, received, gather, cache, getter, got, enqueued>>

\* The peer of a connection goes away.  on_disconnected removes nothing, so
\* the connection object stays in the map; from now on its send_msg raises.
disconnect(_host_id) ==
    /\ _host_id \in DOMAIN connections
    /\ connections[_host_id] = "open"
    /\ connections' = Put(connections, _host_id, "closed")
    /\ call' = [op |-> "disconnect"]
    /\ ret' = RetNone
    /\ UNCHANGED <<registry_vars, precision_dict, service_vars, sends, received, gather, cache, getter, got, enqueued>>

\* send_msg(_host_id, _msg): one await, on the connection's own send_msg.
send_msg(_host_id) ==
    LET conn == Get(connections, _host_id)
    IN  /\ call' = [op |-> "send_msg", host |-> _host_id, awaited |-> ~IsNone(conn)]
        /\ ret' = IF IsNone(conn) THEN RetNone
                  ELSE IF Val(conn) = "open" THEN RetNone
                  ELSE Raised("Exception")
        /\ UNCHANGED <<registry_vars, precision_dict, service_vars, hub_vars>>

gather_siblings_cancelled(tasks, _host_id) ==
    [h \in DOMAIN tasks |-> IF h # _host_id /\ tasks[h] = "running" THEN "cancelled" ELSE tasks[h]]

\* asyncio.gather without return_exceptions: what becomes of the other
\* awaitables when the one of _host_id raises.  They are not cancelled.
gather_siblings(tasks, _host_id) == tasks

\* asyncio.gather without return_exceptions, seen from the coroutine that
\* awaits it: the first exception of an awaitable is raised to it at once,
\* and it gets the results when every awaitable has finished.
gather_outcome(tasks, awaiting) ==
    IF awaiting # "awaiting" THEN awaiting
    ELSE IF \E h \in DOMAIN tasks : tasks[h] = "failed" THEN "raised"
    ELSE IF \A h \in DOMAIN tasks : tasks[h] = "sent" THEN "returned"
    ELSE "awaiting"

\* send_all(_msg) up to its await: one send coroutine per connection in the
\* map, all handed to gather.  The caller is not inside send_all already, and
\* the sends of its previous call are over.
send_all ==
    /\ gather # "awaiting"
    /\ \A h \in DOMAIN sends : sends[h] # "running"
    /\ sends' = [h \in DOMAIN connections |-> "running"]
    /\ received' = [h \in DOMAIN connections |-> 0]
    /\ gather' = gather_outcome(sends', "awaiting")
    /\ call' = [op |-> "send_all"]
    /\ ret' = IF gather' = "returned" THEN RetNone ELSE Returned("pending", None)
    /\ UNCHANGED <<registry_vars, precision_dict, service_vars, connections, cache, getter, got, enqueued>>

\* v.send_msg(_msg) of one connection, run by gather: the payload reaches an
\* open connection; a closed one raises.
conn_send_msg(_host_id) ==
    /\ _host_id \in DOMAIN sends
    /\ sends[_host_id] = "running"
    /\ IF connections[_host_id] = "open"
       THEN /\ sends' = Put(sends, _host_id, "sent")
            /\ received' = Put(received, _host_id, received[_host_id] + 1)
            /\ ret' = RetNone
       ELSE /\ sends' = gather_siblings(Put(sends, _host_id, "failed"), _host_id)
            /\ received' = received
            /\ ret' = Raised("Exception")
    /\ gather' = gather_outcome(sends', gather)
    /\ call' = [op |-> "conn.send_msg", host |-> _host_id]
    /\ UNCHANGED <<registry_vars, precision_dict, service_vars, connections, cache, getter, got, enqueued>>

\* A message is put on self.cache (by the subclass's receiving code).  The
\* queue has no maxsize, so the put never waits.
cache_put(_msg) ==
    /\ Len(enqueued) < MaxMsgs
    /\ cache' = Append(cache, _msg)
    /\ enqueued' = Append(enqueued, _msg)
    /\ call' = [op |-> "cache.put", msg |-> _msg]
    /\ ret' = RetNone
    /\ UNCHANGED <<registry_vars, precision_dict, service_vars, connections, sends, received, gather, getter, got>>

queue_pop(q) == [item |-> q[Len(q)], rest |-> SubSeq(q, 1, Len(q) - 1)]

\* asyncio.Queue.get on a queue that holds something: the oldest item
queue_popleft(q) == [item |-> Head(q), rest |-> Tail(q)]

\* get_data(): await self.cache.get().  With a message in the queue it
\* returns that message without suspending, otherwise the task suspends.
get_data ==
    /\ getter = "idle"
    /\ IF cache = <<>>
       THEN /\ getter' = "waiting"
            /\ ret' = Returned("pending", None)
            /\ UNCHANGED <<cache, got>>
       ELSE /\ getter' = "idle"
            /\ cache' = queue_popleft(cache).rest
            /\ got' = Append(got, queue_popleft(cache).item)
            /\ ret' = Returned("bytes", Some(queue_popleft(cache).item))
    /\ call' = [op |-> "get_data", suspended |-> cache = <<>>]
    /\ UNCHANGED <<registry_vars, precision_dict, service_vars, connections, sends, received, gather, enqueued>>

\* The task suspended in get_data is woken by a put and takes the message.
get_data_resume ==
    /\ getter = "waiting"
    /\ cache # <<>>
    /\ getter' = "idle"
    /\ cache' = queue_popleft(cache).rest
    /\ got' = Append(got, queue_popleft(cache).item)
    /\ ret' = Returned("bytes", Some(queue_popleft(cache).item))
    /\ call' = [op |-> "get_data", suspended |-> TRUE]
    /\ UNCHANGED <<registry_vars, precision_dict, service_vars, connections, sends, received, gather, enqueued>>

\* ------------------------------------------------------- specifications

ExchangeTimestamps == {10000000}
LocalTimestamps == {10000015}
Prices == {100}
Amounts == {0, 1}

PlaceOrder ==
    \E _price \in Prices, _now \in ExchangeTimestamps :
        generate_order("limit", None, Some(_price), _now)

UpdateOrder ==
    \E _order_id \in Ids, _status \in OrderStatuses,
       _last \in ExchangeTimestamps, _local \in LocalTimestamps,
       _execute_amount \in Optional(Amounts) :
        update_order_info(_order_id, _status, _last, _local, None,
                          _execute_amount, None, None)

RemoveOrder == \E _order_id \in Ids : remove_order(_order_id)

\* Lifecycle of orders: every status and every amount, one kind of order.
Next ==
    \/ PlaceOrder
    \/ UpdateOrder
    \/ RemoveOrder

Spec == Init /\ [][Next]_vars

PlaceTarget ==
    \E _drop \in BOOLEAN, _target_price \in Prices :
        place_target_sniffer(">=", _target_price, _drop)

PlaceTrailing ==
    \E _drop \in BOOLEAN, _target_price \in Prices :
        place_trailing_sniffer("<=", _target_price, 5, _drop)

UpdateSniffer ==
    \E _order_id \in Ids, _status \in SnifferStatuses,
       _last \in ExchangeTimestamps, _local \in LocalTimestamps :
        update_sniffer_info(_order_id, _status, _last, _local)

RemoveSniffer == \E _order_id \in Ids : remove_sniffer(_order_id)

\* Lifecycle of triggers: both kinds, both drop flags, every trigger status.
NextSniffer ==
    \/ PlaceTarget
    \/ PlaceTrailing
    \/ UpdateSniffer
    \/ RemoveSniffer

SpecSniffer == Init /\ [][NextSniffer]_vars

PlaceLimitOrder ==
    \E _price \in Optional(Prices), _now \in ExchangeTimestamps :
        generate_order("limit", None, _price, _now)

PlaceDefaultTarget ==
    \E _target_price \in Prices : place_target_sniffer(">=", _target_price, TRUE)

UpdateOrderStatus ==
    \E _order_id \in Ids, _status \in OrderStatuses,
       _last \in ExchangeTimestamps, _local \in LocalTimestamps :
        update_order_info(_order_id, _status, _last, _local, None,
                          Some(0), None, None)

\* Both tables together: limit orders with and without a price, status-only updates.
NextRegistry ==
    \/ PlaceLimitOrder
    \/ PlaceDefaultTarget
    \/ UpdateOrderStatus
    \/ UpdateSniffer

SpecRegistry == Init /\ [][NextRegistry]_vars

\* Construction of OrderInfo objects from every combination of arguments.
NextInfo ==
    \E _order_type \in OrderTypes, _action \in {"open", "close"},
       _position \in {"long", "short"}, _direction \in {-1, 0, 1},
       _feature \in Optional(Features), _price \in Optional(Prices) :
        NewOrderInfo(_order_type, _action, _position, _direction, _feature, _price)

SpecInfo == Init /\ [][NextInfo]_vars

Symbols == {"btc_usdt", "eth_usdt"}
PriceDigits == {0, 2}
AmountDigits == {1}
\* 100.127 and its negative, values on a tick boundary of one of the digits,
\* 0, and 0.29, whose product with 100 is not exact in doubles
QuantizeValues == {-100127, -100120, 0, 5, 290, 100100, 100120, 100127}

Register ==
    \E _symbol \in Symbols, _price \in PriceDigits, _amount \in AmountDigits :
        register_precision(_symbol, _price, _amount)

FormatPrice ==
    \E _symbol \in Symbols, _price \in QuantizeValues, _upper \in BOOLEAN :
        format_price(_symbol, _price, _upper)

FormatAmount ==
    \E _symbol \in Symbols, _amount \in QuantizeValues, _upper \in BOOLEAN :
        format_amount(_symbol, _amount, _upper)

FillOrder ==
    \E _order_id \in Ids, _last \in ExchangeTimestamps, _local \in LocalTimestamps :
        update_order_info(_order_id, "filled", _last, _local, None, Some(1), None, None)

TriggerSniffer ==
    \E _order_id \in Ids, _last \in ExchangeTimestamps, _local \in LocalTimestamps :
        update_sniffer_info(_order_id, "triggered", _last, _local)

\* Precision registration and quantization, next to placements and updates.
NextPrecision ==
    \/ Register
    \/ FormatPrice
    \/ FormatAmount
    \/ PlaceOrder
    \/ PlaceDefaultTarget
    \/ FillOrder
    \/ TriggerSniffer

SpecPrecision == Init /\ [][NextPrecision]_vars

Connect == \E _host_id \in Hosts : connect(_host_id)
Disconnect == \E _host_id \in Hosts : disconnect(_host_id)
SendMsg == \E _host_id \in Hosts : send_msg(_host_id)
SendAll == send_all
ConnSendMsg == \E _host_id \in Hosts : conn_send_msg(_host_id)

\* The sending side of the hub: connections come and go away, send_all and
\* send_msg are called, the sends of send_all run in any order.
NextHub ==
    \/ Connect
    \/ Disconnect
    \/ SendMsg
    \/ SendAll
    \/ ConnSendMsg

SpecHub == Init /\ [][NextHub]_vars

Payloads == {"a", "b"}

CachePut == \E _msg \in Payloads : cache_put(_msg)

\* The receiving side of the hub: messages are enqueued, one task reads.
NextQueue ==
    \/ CachePut
    \/ get_data
    \/ get_data_resume

SpecQueue == Init /\ [][NextQueue]_vars

TimestampFields ==
    {"current_timestamp", "send_timestamp", "receive_timestamp", "exchange_timestamp",
     "local_timestamp", "trigger_timestamp", "trigger_local_timestamp"}
\* 1.0000013 s: not yet rounded to 6 digits
TimestampValues == {10000013}

ConstructTimestamps ==
    \E _current \in TimestampValues, _send \in Optional(TimestampValues),
       _receive \in Optional(TimestampValues), _exchange \in Optional(TimestampValues),
       _local \in Optional(TimestampValues), _trigger \in Optional(TimestampValues),
       _trigger_local \in Optional(TimestampValues) :
        NewOrderTimestamps(Some(_current), _send, _receive, _exchange, _local,
                           _trigger, _trigger_local)

AssignTimestamp ==
    \E name \in TimestampFields, value \in Optional(TimestampValues) :
        SetTimestamp(name, value)

ApplyUpdate ==
    \E _status \in {"waiting", "triggered"}, _exchange \in TimestampValues,
       _local \in TimestampValues :
        UpdateTimestamps(_status, _exchange, _local)

\* Every way an OrderInfo's timestamp fields are written.
NextTimestamps ==
    \/ ConstructTimestamps
    \/ AssignTimestamp
    \/ ApplyUpdate

SpecTimestamps == Init /\ [][NextTimestamps]_vars

SignalSymbols == {"btc_usdt|binance_future", "eth_usdt|binance_future"}
\* positive if long, negative if short
SignalPrices == {-100, 0, 100}
\* one item of S, or a list of at most MaxLen items of S
SingleOrList(S) ==
    {Single(v) : v \in S} \cup {List(items) : items \in UNION {[1..n -> S] : n \in 0..MaxLen}}

\* Construction of Signal objects from single values and lists.
NextSignal ==
    \E _symbol \in SingleOrList(SignalSymbols), _price \in SingleOrList(SignalPrices) :
        NewSignal(_symbol, _price)

SpecSignal == Init /\ [][NextSignal]_vars

CancelOrder == \E _order_id \in Ids : cancel_order(_order_id)
CancelSniffer == \E _order_id \in Ids : cancel_sniffer(_order_id)

CancelingOrFilled ==
    \E _order_id \in Ids, _status \in {"canceling", "filled"},
       _last \in ExchangeTimestamps, _local \in LocalTimestamps :
        update_order_info(_order_id, _status, _last, _local, None, Some(1), None, None)

\* Cancellation requests racing with the updates that answer them.
NextCancel ==
    \/ PlaceOrder
    \/ PlaceDefaultTarget
    \/ CancelOrder
    \/ CancelSniffer
    \/ CancelingOrFilled

SpecCancel == Init /\ [][NextCancel]_vars

PlaceTimer == \E _to_timestamp \in 0..MaxTime : place_timer(_to_timestamp)

\* Timers of one on_timer stream are placed, time passes, timers fire.
NextTimer ==
    \/ PlaceTimer
    \/ on_timer
    \/ clock_tick

\* The clock does not stop and a deliverable timer is not left waiting for ever.
SpecTimer == Init /\ [][NextTimer]_vars /\ WF_vars(clock_tick) /\ WF_vars(on_timer)

\* two exchange timestamps, so that a second update is told from the first
LaterTimestamps == {10000000, 20000000}

WaitingUpdate ==
    \E _order_id \in Ids, _last \in LaterTimestamps, _local \in LocalTimestamps :
        update_sniffer_info(_order_id, "waiting", _last, _local)

\* Triggers that are reported waiting again and again.
NextWaiting ==
    \/ PlaceDefaultTarget
    \/ PlaceTrailing
    \/ WaitingUpdate
    \/ RemoveSniffer

SpecWaiting == Init /\ [][NextWaiting]_vars

SendTimestamps == {10000005}
ReceiveTimestamps == {10000010}

RecordRound ==
    \E _order_id \in Ids, _send \in Optional(SendTimestamps),
       _receive \in Optional(ReceiveTimestamps) :
        update_round_timestamp(_order_id, _send, _receive)

\* Send and receive timestamps recorded while terminal updates arrive.
NextRound ==
    \/ PlaceOrder
    \/ RecordRound
    \/ FillOrder

SpecRound == Init /\ [][NextRound]_vars

\* status and execution fields of orders that have had an execution price
HeldStatuses == {"pending", "partial_filled"}
HeldPrices == {100}
HeldAmounts == {0, 1}
FeeRates == {1}
Msgs == {"m"}
OrderStates ==
    [status : HeldStatuses, execute_price : HeldPrices, execute_amount : HeldAmounts,
     fee_rate : Optional(FeeRates), msg : Optional(Msgs)]

\* the statuses an UpdateOrderInfo admits, as far as these orders go
UpdateStatuses == {"partial_filled", "filled"}
UpdatePrices == {101}
UpdateAmounts == {1, 2}

ApplyOrderUpdate ==
    \E data \in OrderStates, _status \in UpdateStatuses,
       _last \in ExchangeTimestamps, _local \in LocalTimestamps,
       _execute_price \in Optional(UpdatePrices),
       _execute_amount \in Optional(UpdateAmounts),
       _fee_rate \in Optional(FeeRates), _msg \in Optional(Msgs) :
        apply_order_update(data, _status, _last, _local, _execute_price,
                           _execute_amount, _fee_rate, _msg)

\* Accepted updates applied by the registry and by OrderInfo.update.
NextApply == ApplyOrderUpdate

SpecApply == Init /\ [][NextApply]_vars

\* ----------------------------------------------------------- properties

\* the last call was _update_order_info
OrderUpdateCalled == call.op = "update_order_info"
\* the last call was _update_sniffer_info
SnifferUpdateCalled == call.op = "update_sniffer_info"
\* the last call gave back a snapshot: the update was accepted
Accepted == ret.kind = "info"
Snapshot == Val(ret.value)

\* C1: while an order is in the order table its status rank never decreases,
\* and an update of lower rank than the order's leaves the status as it was.
C1_OrderRankNeverDecreases ==
    [][/\ \A id \in DOMAIN orders \cap DOMAIN orders' :
            ORDER_STATUS[orders'[id].status] >= ORDER_STATUS[orders[id].status]
       /\ (/\ OrderUpdateCalled'
           /\ call'.order_id \in DOMAIN orders
           /\ ORDER_STATUS[call'.status] < ORDER_STATUS[orders[call'.order_id].status])
          => /\ call'.order_id \in DOMAIN orders'
             /\ orders'[call'.order_id].status = orders[call'.order_id].status]_vars

\* C1 witness: an update of lower rank than the order's came and was dropped.
C1_Witness ==
    /\ OrderUpdateCalled
    /\ call.order_id \in DOMAIN orders
    /\ ORDER_STATUS[call.status] < ORDER_STATUS[orders[call.order_id].status]
    /\ ret = RetNone

\* C2: for an order in the table, an update of the same rank is accepted if
\* and only if its execute_amount is strictly greater than the order's, and an
\* update of strictly higher rank is accepted whatever its execute_amount.
C2_SameRankNeedsMoreAmount ==
    [][(OrderUpdateCalled' /\ call'.order_id \in DOMAIN orders) =>
         LET order_info == orders[call'.order_id]
             new_rank == ORDER_STATUS[call'.status]
             old_rank == ORDER_STATUS[order_info.status]
             amount == call'.execute_amount
             applied == /\ Accepted'
                        /\ Snapshot'.status = call'.status
                        /\ IF new_rank >= 5
                           THEN call'.order_id \notin DOMAIN orders'
                           ELSE orders'[call'.order_id] = Snapshot'
         IN  /\ new_rank = old_rank =>
                    (applied <=> (~IsNone(amount)
                                  /\ Val(amount) > order_info.execute_amount))
             /\ new_rank = old_rank => (~applied => orders' = orders)
             /\ new_rank > old_rank => applied]_vars

\* C2 witness: a pending order has a positive execute_amount, which only an
\* accepted update of its own rank gives it.
C2_Witness ==
    /\ OrderUpdateCalled
    /\ Accepted
    /\ call.order_id \in DOMAIN orders
    /\ orders[call.order_id].status = "pending"
    /\ orders[call.order_id].execute_amount > 0

\* C3: no order in the order table has a status of rank 5; an accepted update
\* to such a status removes the order in the same step, and the order_id is
\* never found again.
C3_NoTerminalOrderInTable ==
    /\ [](\A id \in DOMAIN orders : ORDER_STATUS[orders[id].status] < 5)
    /\ []((OrderUpdateCalled /\ Accepted /\ ORDER_STATUS[call.status] = 5)
            => IsNone(get_order_info(call.order_id)))
    /\ [][\A id \in issued :
            IsNone(get_order_info(id)) => IsNone(get_order_info(id))']_vars

\* C3 witness: a filled update was accepted and its order is gone.
C3_Witness ==
    /\ OrderUpdateCalled
    /\ Accepted
    /\ call.status = "filled"
    /\ Snapshot.status = "filled"
    /\ IsNone(get_order_info(call.order_id))

\* C4: _update_order_info for an order_id that is not in the order table and
\* _update_sniffer_info for an id that is not in the trigger table raise
\* nothing, return nothing and leave both tables as they were, whatever the
\* status of the update.
C4_UnknownIdIsNoOp ==
    [][/\ (OrderUpdateCalled' /\ call'.order_id \notin DOMAIN orders)
            => (ret' = RetNone /\ orders' = orders /\ sniffers' = sniffers)
       /\ (SnifferUpdateCalled' /\ call'.order_id \notin DOMAIN sniffers)
            => (ret' = RetNone /\ orders' = orders /\ sniffers' = sniffers)]_vars

\* C4 witness: a filled update came for an order that was evicted before,
\* while the tables hold other entries.
C4_Witness ==
    /\ OrderUpdateCalled
    /\ call.status = "filled"
    /\ call.order_id \in issued
    /\ call.order_id \notin DOMAIN orders \cup DOMAIN sniffers
    /\ call.order_id \notin DOMAIN drop
    /\ ret = RetNone
    /\ DOMAIN orders \cup DOMAIN sniffers # {}

TerminalSnifferStatuses == {"triggered", "canceled", "error"}

\* C5: a trigger whose drop flag is true that accepts an update to triggered,
\* canceled or error leaves the trigger table in that step; an id that is not
\* in the table never comes back and every update for it is a no-op.
C5_DroppedTriggerIsRemoved ==
    [][/\ (/\ SnifferUpdateCalled'
           /\ call'.order_id \in DOMAIN sniffers
           /\ drop[call'.order_id]
           /\ call'.status \in TerminalSnifferStatuses
           /\ Accepted')
          => (call'.order_id \notin DOMAIN sniffers'
              /\ Snapshot'.status = call'.status)
       /\ \A id \in issued :
            IsNone(get_sniffer_info(id)) => IsNone(get_sniffer_info(id))'
       /\ (SnifferUpdateCalled' /\ call'.order_id \notin DOMAIN sniffers)
            => (ret' = RetNone /\ sniffers' = sniffers)]_vars

\* C5 witness: a trigger with drop = true accepted triggered and is gone.
C5_Witness ==
    /\ SnifferUpdateCalled
    /\ Accepted
    /\ call.status = "triggered"
    /\ drop[call.order_id]
    /\ IsNone(get_sniffer_info(call.order_id))

\* C6 (as claimed): a trigger whose drop flag is false that accepts an update
\* to triggered, canceled or error stays in the trigger table with that status.
C6_KeptTriggerStays ==
    (/\ SnifferUpdateCalled
     /\ Accepted
     /\ call.status \in TerminalSnifferStatuses
     /\ ~drop[call.order_id])
    => /\ call.order_id \in DOMAIN sniffers
       /\ sniffers[call.order_id].status = call.status

\* C7: the rank of a trigger under the trigger rank table never decreases, and
\* an update of lower trigger rank than the trigger's is dropped and changes
\* nothing.
C7_TriggerRankNeverDecreases ==
    [][/\ \A id \in DOMAIN sniffers \cap DOMAIN sniffers' :
            SNIFFER_STATUS[sniffers'[id].status] >= SNIFFER_STATUS[sniffers[id].status]
       /\ (/\ SnifferUpdateCalled'
           /\ call'.order_id \in DOMAIN sniffers
           /\ SNIFFER_STATUS[call'.status]
                < SNIFFER_STATUS[sniffers[call'.order_id].status])
          => (ret' = RetNone /\ sniffers' = sniffers)]_vars

\* C7 witness: pending came for a waiting trigger and was dropped.
C7_Witness ==
    /\ SnifferUpdateCalled
    /\ call.status = "pending"
    /\ call.order_id \in DOMAIN sniffers
    /\ sniffers[call.order_id].status = "waiting"
    /\ ret = RetNone

\* C8 (as claimed): every limit or condition_limit order in the order table
\* has a price or has feature = queue.
C8_LimitOrderHasPrice ==
    \A id \in DOMAIN orders :
        orders[id].order_type \in {"limit", "condition_limit"}
            => (~IsNone(orders[id].price) \/ orders[id].feature = Some("queue"))

\* C9: constructing an OrderInfo of type limit or condition_limit with no
\* price and a feature other than queue fails validation; with feature = queue
\* it succeeds, and so does any market or condition_market order with no price.
C9_PriceRequired ==
    call.op = "OrderInfo" =>
        /\ (/\ call.order_type \in {"limit", "condition_limit"}
            /\ call.price = None
            /\ call.feature # Some("queue"))
           => ret = Raised("ValidationError")
        /\ (/\ call.order_type \in {"limit", "condition_limit"}
            /\ call.price = None
            /\ call.feature = Some("queue"))
           => (Accepted /\ Snapshot.price = None /\ Snapshot.feature = Some("queue"))
        /\ (/\ call.order_type \in {"market", "condition_market"}
            /\ call.price = None)
           => (Accepted /\ Snapshot.price = None)

\* C9 witness: a condition_limit order with no price and feature = queue was built.
C9_Witness ==
    /\ call.op = "OrderInfo"
    /\ call.order_type = "condition_limit"
    /\ call.price = None
    /\ call.feature = Some("queue")
    /\ Accepted

\* C10: placing an order returns an id that no earlier call returned and adds
\* exactly one entry under it, pending and with execute_amount 0; every other
\* order and every trigger stays as it was.
C10_PlacementAddsOneOrder ==
    [][call'.op = "generate_order" =>
         /\ ret'.kind = "id"
         /\ LET order_id == Val(ret'.value)
            IN  /\ order_id \notin issued
                /\ order_id \notin DOMAIN orders \cup DOMAIN sniffers
                /\ DOMAIN orders' = DOMAIN orders \cup {order_id}
                /\ orders'[order_id].order_id = order_id
                /\ orders'[order_id].status = "pending"
                /\ orders'[order_id].execute_amount = 0
                /\ \A other \in DOMAIN orders : orders'[other] = orders[other]
                /\ sniffers' = sniffers]_vars

\* C10 witness: an order was placed under the last free id after an earlier
\* id had been issued and evicted.
C10_Witness ==
    /\ call.op = "generate_order"
    /\ Val(ret.value) \in DOMAIN orders
    /\ orders[Val(ret.value)].status = "pending"
    /\ Cardinality(issued) = MaxIds
    /\ Cardinality(DOMAIN orders \cup DOMAIN sniffers) < MaxIds

\* C11: the direction of a constructed order comes from position and action
\* alone, whatever direction was passed: long/open +1, long/close -1,
\* short/open -1, short/close +1; it is never 0.
C11_DirectionDerived ==
    (call.op = "OrderInfo" /\ Accepted) =>
        /\ Snapshot.direction # 0
        /\ (call.position = "long" /\ call.action = "open") => Snapshot.direction = 1
        /\ (call.position = "long" /\ call.action = "close") => Snapshot.direction = -1
        /\ (call.position = "short" /\ call.action = "open") => Snapshot.direction = -1
        /\ (call.position = "short" /\ call.action = "close") => Snapshot.direction = 1

\* C11 witness: a short/close order was built with direction -1 passed in.
C11_Witness ==
    /\ call.op = "OrderInfo"
    /\ Accepted
    /\ call.position = "short"
    /\ call.action = "close"
    /\ call.direction = -1
    /\ Snapshot.direction = 1

\* the last call was format_price or format_amount
FormatCalled == call.op \in {"format_price", "format_amount"}
\* ... and its symbol has a registered precision
FormatRegistered == FormatCalled /\ call.symbol \in DOMAIN precision_dict
\* the digits that call read
FormatDigits ==
    IF call.op = "format_price" THEN precision_dict[call.symbol].price
    ELSE precision_dict[call.symbol].amount
\* what the same call gives with _upper=False
FormatDown ==
    IF call.op = "format_price" THEN format_price_result(call.symbol, call.value, FALSE)
    ELSE format_amount_result(call.symbol, call.value, FALSE)
\* the greatest multiple of tick that is <= v
GreatestTickAtMost(v, tick) == (v \div tick) * tick

\* C12: for a registered symbol and a non-negative input, quantization with
\* round_up=true gives the round_up=false result plus exactly one tick, also
\* for an input already on a tick boundary; 100.127 with 2 digits gives
\* 100.12 rounding down and 100.13 rounding up.
C12_UpIsDownPlusOneTick ==
    (FormatRegistered /\ call.value >= 0) =>
        /\ ret.kind = "float"
        /\ call.upper => Val(ret.value) = Val(FormatDown.value) + Tick(FormatDigits)
        /\ (call.value = 100127 /\ FormatDigits = 2) =>
               Val(ret.value) = IF call.upper THEN 100130 ELSE 100120

\* C12 witness: 100.12, already on the tick of 2 digits, was rounded up to 100.13.
C12_Witness ==
    /\ FormatRegistered /\ call.op = "format_price" /\ call.upper
    /\ FormatDigits = 2 /\ call.value = 100120 /\ ret.value = Some(100130)

\* C13: quantization with round_up=false is a strict floor for every input,
\* negative ones included: the result is the greatest multiple of the tick
\* that is less than or equal to the input.
C13_DownIsFloor ==
    (FormatRegistered /\ ~call.upper) =>
        ret.value = Some(GreatestTickAtMost(call.value, Tick(FormatDigits)))

\* C14: quantization for a symbol that has no registered precision raises
\* instead of returning a value, and leaves the precision dictionary, the
\* order table and the trigger table unchanged.
C14_UnregisteredSymbolRaises ==
    [][(call'.op \in {"format_price", "format_amount"}
            /\ call'.symbol \notin DOMAIN precision_dict) =>
           /\ ret'.kind = "KeyError"
           /\ IsNone(ret'.value)
           /\ UNCHANGED <<precision_dict, service_vars, orders, sniffers>>]_vars

\* C14 witness: format_amount raised for the unregistered eth_usdt while
\* btc_usdt was registered and an order and a trigger were live.
C14_Witness ==
    /\ call.op = "format_amount" /\ call.symbol = "eth_usdt"
    /\ DOMAIN precision_dict = {"btc_usdt"}
    /\ ret.kind = "KeyError"
    /\ orders # EmptyDict /\ sniffers # EmptyDict

\* C20: once a symbol's precision is registered no later operation changes
\* it: a second registration of the same symbol, a placement, an update and
\* a quantization all leave the entry as first written.
C20_RegisteredEntryNeverChanges ==
    [][\A _symbol \in DOMAIN precision_dict :
           /\ _symbol \in DOMAIN precision_dict'
           /\ precision_dict'[_symbol] = precision_dict[_symbol]]_vars

\* C20 as the code has it: a registered entry stays and is changed by nothing
\* but a registration of that same symbol, which overwrites it with the
\* digits it was given; placements, updates, quantizations and the
\* registration of another symbol leave it as it was.
C20_OnlyRegistrationChangesEntry ==
    [][\A _symbol \in DOMAIN precision_dict :
           /\ _symbol \in DOMAIN precision_dict'
           /\ \/ precision_dict'[_symbol] = precision_dict[_symbol]
              \/ /\ call'.op = "set_precision_dict"
                 /\ call'.symbol = _symbol
                 /\ precision_dict'[_symbol] =
                        [price |-> call'.price, amount |-> call'.amount]]_vars

\* C20 witness: both symbols are registered with different price digits, the
\* last call registered one of them, and an order and a trigger are live.
C20_Witness ==
    /\ call.op = "set_precision_dict"
    /\ DOMAIN precision_dict = Symbols
    /\ precision_dict["btc_usdt"].price # precision_dict["eth_usdt"].price
    /\ orders # EmptyDict /\ sniffers # EmptyDict

\* no send issued by send_all is still in progress
NoSendRunning == \A h \in DOMAIN sends : sends[h] # "running"

\* C15: send_all delivers the payload to every connection whose send
\* succeeds even when the send on another connection fails: a send that is
\* running on an open connection ends in no other way than by delivering the
\* payload, whatever the other sends did, and a connection has the payload
\* exactly once when its send succeeded and not at all otherwise.
C15_FailureLeavesOtherSends ==
    /\ [](\A h \in DOMAIN sends :
              /\ sends[h] \in {"running", "sent", "failed"}
              /\ received[h] = IF sends[h] = "sent" THEN 1 ELSE 0)
    /\ [][\A h \in DOMAIN sends :
              (sends[h] = "running" /\ h \in DOMAIN sends' /\ sends'[h] # "running"
                   /\ connections[h] = "open") =>
                  (sends'[h] = "sent" /\ received'[h] = 1)]_vars

\* C15 witness: three known connections of which one is closed; its send
\* failed and the other two each have the payload exactly once.
C15_Witness ==
    /\ Cardinality(DOMAIN sends) = 3
    /\ NoSendRunning
    /\ \E h \in DOMAIN sends :
           /\ sends[h] = "failed" /\ received[h] = 0
           /\ \A g \in DOMAIN sends \ {h} : sends[g] = "sent" /\ received[g] = 1

\* C16: send_all gives control back to its caller only after the send on
\* every known connection has completed, also when one of the sends fails.
C16_ReturnsAfterAllSends ==
    gather \in {"returned", "raised"} => NoSendRunning

\* C17: send_msg never propagates an exception to its caller, for a host
\* without connection and for a known host whose connection is dead alike.
C17_SendMsgNeverRaises ==
    call.op = "send_msg" => ret = RetNone

\* C18: get_data returns the enqueued messages in the order they were
\* enqueued, each exactly once; with an empty queue the calling task
\* suspends, stays suspended while the queue is empty, and when it resumes
\* it receives the message that was enqueued meanwhile.
C18_FifoExactlyOnce ==
    /\ [](got \o cache = enqueued)
    /\ [][(getter = "idle" /\ getter' = "waiting") => (cache = <<>> /\ got' = got)]_vars
    /\ [][(getter = "waiting" /\ cache = <<>>) => (getter' = "waiting" /\ got' = got)]_vars
    /\ [][(getter = "waiting" /\ getter' = "idle") =>
              /\ cache # <<>>
              /\ got' = Append(got, Head(cache))
              /\ ret'.value = Some(Head(cache))]_vars

\* C18 witness: "a" then "b" were enqueued and read in that order, and the
\* last read had suspended on the empty queue first.
C18_Witness ==
    /\ enqueued = <<"a", "b">> /\ got = <<"a", "b">> /\ cache = <<>>
    /\ call.op = "get_data" /\ call.suspended /\ ret.value = Some("b")

\* C19: every write to a timestamp field of an order, by construction, by an
\* update or by assigning the single field, stores the value rounded to 6
\* decimal digits: no timestamp field of the object ever holds another value.
C19_TimestampsRounded ==
    ret.kind = "info" =>
        \A name \in TimestampFields :
            \/ IsNone(Val(ret.value)[name])
            \/ Val(Val(ret.value)[name]) % 10 = 0

\* C21: constructing a Signal fails with a validation error when symbol and
\* price are lists of different lengths and when exactly one of them is a
\* list; it succeeds when both are single values or both are lists of equal
\* length.
C21_SignalShapesAgree ==
    call.op = "Signal" =>
        LET bothSingle == ~call.symbol.list /\ ~call.price.list
            bothListsEqual == /\ call.symbol.list /\ call.price.list
                              /\ Len(call.symbol.items) = Len(call.price.items)
        IN  /\ (bothSingle \/ bothListsEqual) => Accepted
            /\ ~(bothSingle \/ bothListsEqual) => (ret.kind = "ValidationError" /\ IsNone(ret.value))

\* C21 witness: two symbols with one price, both given as lists, were refused.
C21_Witness ==
    /\ call.op = "Signal" /\ call.symbol.list /\ call.price.list
    /\ Len(call.symbol.items) = 2 /\ Len(call.price.items) = 1
    /\ ret.kind = "ValidationError"

\* C22: cancel_order and cancel_sniffer leave the order table and the trigger
\* table unchanged, so the order keeps its status until an update arrives;
\* a filled update that arrives after the cancel request, while the order
\* is still in the table, is accepted and finalizes the order as filled.
C22_CancelIsRequestOnly ==
    [][/\ call'.op \in {"cancel_order", "cancel_sniffer"} => UNCHANGED <<orders, sniffers>>
       /\ \A _order_id \in DOMAIN orders :
              (/\ <<"cancel_order", _order_id>> \in requests
               /\ call'.op = "update_order_info"
               /\ call'.order_id = _order_id
               /\ call'.status = "filled") =>
                  /\ ret'.kind = "info"
                  /\ Val(ret'.value).status = "filled"
                  /\ _order_id \notin DOMAIN orders']_vars

\* C22 witness: an order whose cancellation had been requested was
\* finalized by a filled update.
C22_Witness ==
    /\ call.op = "update_order_info" /\ call.status = "filled" /\ Accepted
    /\ <<"cancel_order", call.order_id>> \in requests
    /\ Snapshot.status = "filled"
    /\ call.order_id \notin DOMAIN orders

\* the events waiting and the events delivered
PendingEvents == {timers[i].event : i \in DOMAIN timers}
FiredEvents == {fired[i].event : i \in DOMAIN fired}

\* C23: every placed timer is eventually delivered to on_timer, exactly once
\* and not before its timestamp; no operation cancels it; timers of one
\* on_timer stream are delivered in the order they were placed.
C23_TimersAlwaysFireInOrder ==
    /\ [](/\ \A i, j \in DOMAIN fired : i < j => fired[i].event < fired[j].event
          /\ \A i \in DOMAIN fired : fired[i].at >= fired[i].to_timestamp
          /\ PendingEvents \cap FiredEvents = {})
    /\ [][/\ PendingEvents \subseteq PendingEvents' \cup FiredEvents'
          /\ \A i \in DOMAIN fired : i \in DOMAIN fired' /\ fired'[i] = fired[i]]_vars
    /\ \A _event \in 1..MaxTimers :
           (_event \in PendingEvents) ~> (_event \in FiredEvents)

\* C23 witness: two timers were delivered in placement order, the first one
\* later than the timestamp of the second.
C23_Witness ==
    /\ Len(fired) = 2 /\ timers = <<>>
    /\ fired[1].event = 1 /\ fired[2].event = 2
    /\ fired[1].to_timestamp > fired[2].to_timestamp
    /\ fired[1].at = fired[1].to_timestamp

\* d.get(k) of a stored dict
Field(d, k) == IF k \in DOMAIN d THEN d[k] ELSE None

\* C25: an accepted order update sets the order's trigger_timestamp and
\* trigger_local_timestamp to the update's exchange and local timestamps if
\* its status is triggered, and leaves both unchanged for every other status.
C25_TriggeredStampsTriggerTimestamps ==
    [][(call'.op = "update_order_info" /\ ret'.kind = "info"
            /\ call'.order_id \in DOMAIN orders) =>
           LET before == orders[call'.order_id]
               after == Val(ret'.value)
           IN  IF call'.status = "triggered"
               THEN /\ ~IsNone(Field(after, "trigger_timestamp"))
                    /\ Field(after, "trigger_timestamp") = after.last_timestamp
                    /\ Field(after, "trigger_local_timestamp") = after.local_timestamp
               ELSE /\ Field(after, "trigger_timestamp") = Field(before, "trigger_timestamp")
                    /\ Field(after, "trigger_local_timestamp") =
                           Field(before, "trigger_local_timestamp")]_vars

\* C26: a rejected order update (lower rank, or equal rank without a
\* strictly larger execute_amount) changes no field of the order, leaves it
\* in the table and returns no snapshot.
C26_RejectedUpdateChangesNothing ==
    [][(call'.op = "update_order_info" /\ call'.order_id \in DOMAIN orders
            /\ LET order_info == orders[call'.order_id]
                   rank == ORDER_STATUS[call'.status]
                   larger == /\ ~IsNone(call'.execute_amount)
                             /\ Val(call'.execute_amount) > OrZero(order_info.execute_amount)
               IN  \/ rank < ORDER_STATUS[order_info.status]
                   \/ rank = ORDER_STATUS[order_info.status] /\ ~larger) =>
           /\ orders' = orders
           /\ ret'.kind # "info"
           /\ IsNone(ret'.value)]_vars

\* C26 witness: an equal-rank update that brought no larger amount was
\* dropped, the partially filled order is still in the table with amount 1.
C26_Witness ==
    /\ OrderUpdateCalled /\ call.status = "partial_filled"
    /\ call.execute_amount = Some(1) /\ ret = RetNone
    /\ call.order_id \in DOMAIN orders
    /\ orders[call.order_id].status = "partial_filled"
    /\ orders[call.order_id].execute_amount = 1

\* C27: an accepted order update returns the order's snapshot with the
\* update applied; when the update is terminal the snapshot carries the
\* terminal status and the update's execute_amount although the order is no
\* longer in the table.
C27_SnapshotCarriesUpdate ==
    (OrderUpdateCalled /\ Accepted) =>
        /\ Snapshot.status = call.status
        /\ ~IsNone(Snapshot.last_timestamp) /\ ~IsNone(Snapshot.local_timestamp)
        /\ ~IsNone(call.execute_amount) => Snapshot.execute_amount = Val(call.execute_amount)
        /\ IF ORDER_STATUS[call.status] >= 5
           THEN call.order_id \notin DOMAIN orders
           ELSE /\ call.order_id \in DOMAIN orders
                /\ orders[call.order_id] = Snapshot

\* C27 witness: a filled update with amount 1 was accepted; the snapshot
\* says filled with amount 1 and the order has left the table.
C27_Witness ==
    /\ OrderUpdateCalled /\ Accepted /\ call.status = "filled"
    /\ call.execute_amount = Some(1)
    /\ Snapshot.status = "filled" /\ Snapshot.execute_amount = 1
    /\ call.order_id \notin DOMAIN orders

\* C28: a trigger update whose status has the same trigger rank as the
\* trigger's current status (waiting arriving for a trigger that is already
\* waiting) is a no-op: status, last_timestamp and local_timestamp are left
\* unchanged.
C28_SameRankTriggerUpdateIsNoOp ==
    [][(call'.op = "update_sniffer_info" /\ call'.order_id \in DOMAIN sniffers
            /\ call'.status \in DOMAIN SNIFFER_STATUS
            /\ SNIFFER_STATUS[call'.status] =
                   SNIFFER_STATUS[sniffers[call'.order_id].status]) =>
           /\ call'.order_id \in DOMAIN sniffers'
           /\ sniffers'[call'.order_id].status = sniffers[call'.order_id].status
           /\ sniffers'[call'.order_id].last_timestamp =
                  sniffers[call'.order_id].last_timestamp
           /\ sniffers'[call'.order_id].local_timestamp =
                  sniffers[call'.order_id].local_timestamp]_vars

\* C29: a trailing trigger is stored with status pending and with the
\* operator, target_price and back_pct it was placed with, a target trigger
\* with its operator and target_price; a lookup by its id yields those
\* values until the trigger is updated or removed.
C29_PlacedTriggerKeepsItsTerms ==
    \A _order_id \in DOMAIN sniffers :
        LET found == Val(get_sniffer_info(_order_id))
        IN  (found.status = "pending" /\ IsNone(found.last_timestamp)) =>
                /\ "operator" \in DOMAIN found
                /\ found.operator \in {">=", "<="}
                /\ "target_price" \in DOMAIN found
                /\ found.target_price \in Prices
                /\ found.order_type = "trailing" =>
                       ("back_pct" \in DOMAIN found /\ found.back_pct = 5)

\* C30: the cumulative execute_amount recorded for an order never decreases
\* over accepted updates, an accepted update of higher rank with a smaller
\* or defaulted (0) execute_amount included.
C30_ExecuteAmountNeverDecreases ==
    [][/\ \A _order_id \in DOMAIN orders \cap DOMAIN orders' :
              orders'[_order_id].execute_amount >= orders[_order_id].execute_amount
       /\ (call'.op = "update_order_info" /\ ret'.kind = "info"
               /\ call'.order_id \in DOMAIN orders) =>
              Val(ret'.value).execute_amount >= orders[call'.order_id].execute_amount]_vars

\* C31: update_sniffer_info compares ranks with the order rank table and
\* decides removal with the trigger rank table; for every reachable trigger
\* and every update with a trigger status, the update is accepted exactly
\* when a comparison by trigger rank accepts it, a rejected update leaves
\* the trigger table as it was and an accepted one leaves the table that
\* rule leaves: the trigger gone at trigger rank 2, its status set below.
C31_OrderRankDecidesAsTriggerRank ==
    [][(call'.op = "update_sniffer_info" /\ call'.order_id \in DOMAIN sniffers
            /\ call'.status \in DOMAIN SNIFFER_STATUS) =>
           LET current == sniffers[call'.order_id].status
               byTriggerRank == ~(SNIFFER_STATUS[call'.status] < SNIFFER_STATUS[current])
           IN  /\ current \in DOMAIN SNIFFER_STATUS
               /\ (ret'.kind = "info") <=> byTriggerRank
               /\ ~byTriggerRank => (sniffers' = sniffers /\ ret' = RetNone)
               /\ byTriggerRank =>
                      IF SNIFFER_STATUS[call'.status] >= 2
                      THEN sniffers' = Pop(sniffers, call'.order_id)
                      ELSE /\ DOMAIN sniffers' = DOMAIN sniffers
                           /\ sniffers'[call'.order_id].status = call'.status
                           /\ \A other \in DOMAIN sniffers \ {call'.order_id} :
                                  sniffers'[other] = sniffers[other]]_vars

\* C31 witness: canceled (order rank 5, trigger rank 2) was accepted for a
\* trigger and removed it, while another trigger is waiting in the table.
C31_Witness ==
    /\ SnifferUpdateCalled /\ call.status = "canceled" /\ Accepted
    /\ call.order_id \notin DOMAIN sniffers
    /\ \E other \in DOMAIN sniffers : sniffers[other].status = "waiting"

\* C32: recording a send or receive timestamp for an order_id that is no
\* longer in the order table, a terminal update having removed it first,
\* raises no error and leaves the order table unchanged.
C32_LateRoundTimestampIsNoOp ==
    [][(call'.op = "update_round_timestamp" /\ call'.order_id \in issued
            /\ call'.order_id \notin DOMAIN orders) =>
           (ret' = RetNone /\ orders' = orders)]_vars

\* C33: for every order state and every accepted update, _update_order_info
\* and OrderInfo.update leave the same status, execute_price, execute_amount,
\* fee_rate and msg on the order, also when the update carries no fee_rate,
\* no msg or no execute_price.
C33_BothUpdatesAgree ==
    ("op" \in DOMAIN call /\ call.op = "apply_order_update") =>
        LET registry == ret.value.registry
            order_info == ret.value.order_info
        IN  /\ registry.status = order_info.status
            /\ registry.execute_price = Some(order_info.execute_price)
            /\ registry.execute_amount = order_info.execute_amount
            /\ registry.fee_rate = order_info.fee_rate
            /\ registry.msg = order_info.msg

====
